---- MODULE Spec2Model ----
(***************************************************************************)
(* A model of Release.perform (Release.js): one release transaction of a   *)
(* node project kept in git.  The state is the project (package.json on    *)
(* disk, node's require cache, the local repository and the remote), the   *)
(* closure variables of perform, the position in its promise chain, and    *)
(* the observations the tests make (the log of git commands, what the      *)
(* build step was given, how the returned promise settled).                *)
(*                                                                         *)
(* A version string is a record: nums is the sequence of its dot-separated *)
(* numeric components and snap says whether "-SNAPSHOT" is appended, so    *)
(* "1.2.3-SNAPSHOT" is [nums |-> <<1,2,3>>, snap |-> TRUE].                *)
(***************************************************************************)
EXTENDS Integers, Sequences, FiniteSets, TLC

\* Largest numeric component of a version found in package.json at the start.
MaxNum == 1

\* null / undefined where the code expects a version string (falsy in JS).
NoVersion == [nums |-> <<>>, snap |-> FALSE]

\* null where the code expects a commit id; real commits are numbered from 1.
NoCommit == 0

Ver(n, s) == [nums |-> n, snap |-> s]

Nums == 0..MaxNum

\* The versions package.json may hold when the process starts: two- and
\* three-component, with and without the -SNAPSHOT marker.
ManifestVersions ==
    {Ver(<<x, y, z>>, s) : x \in Nums, y \in Nums, z \in Nums, s \in BOOLEAN}
    \cup {Ver(<<x, y>>, s) : x \in Nums, y \in Nums, s \in BOOLEAN}

\* Explicit versions a caller may pass; neither is a value perform derives.
ReleaseOverride == Ver(<<MaxNum + 1, 0, 0>>, FALSE)
DevOverride == Ver(<<MaxNum + 1, 5, 0>>, TRUE)

\* package.json on disk: absent, an empty file, or JSON with a version field.
File(st, v) == [state |-> st, version |-> v]
AbsentFile == File("absent", NoVersion)
EmptyFile == File("empty", NoVersion)

\* node's require cache entry for package.json.
Unloaded == [loaded |-> FALSE, version |-> NoVersion]
Loaded(v) == [loaded |-> TRUE, version |-> v]

\* The argument of perform. present = FALSE is perform() without argument.
\* build tells what the buildPromise function is: "callable" is a function of
\* the caller, the others are the command line's function, run without
\* --build, with a command that exits with 0 or one that exits with another
\* code.
NoConfig ==
    [present |-> FALSE, projectPath |-> FALSE, buildPromise |-> "undefined",
     postReleasePromise |-> FALSE, releaseVersion |-> NoVersion,
     nextDevVersion |-> NoVersion, devVersion |-> NoVersion, debug |-> FALSE,
     build |-> "callable"]

ValidConfig(c) == c.present /\ c.projectPath /\ c.buildPromise = "function"

Configs ==
    {NoConfig} \cup
    {c \in [present : {TRUE}, projectPath : BOOLEAN,
            buildPromise : {"undefined", "string", "function"},
            postReleasePromise : BOOLEAN,
            releaseVersion : {NoVersion, ReleaseOverride},
            nextDevVersion : {NoVersion, DevOverride},
            devVersion : {NoVersion},
            debug : BOOLEAN,
            build : {"callable"}] :
        ValidConfig(c) \/
        (~c.postReleasePromise /\ c.releaseVersion = NoVersion
            /\ c.nextDevVersion = NoVersion /\ ~c.debug)}

\* What the command line gives: --releaseVersion, --devVersion, --debug and
\* --build ("" without it, otherwise how the command exits).
CliArgs ==
    [releaseVersion : {NoVersion, ReleaseOverride},
     devVersion : {NoVersion, DevOverride},
     debug : BOOLEAN,
     build : {"", "exitZero", "exitNonZero"}]

\* The buildPromise function of the command line entry, by --build.
CliBuildPromise(build) ==
    CASE build = "" -> "cliNoBuild"
      [] build = "exitZero" -> "cliExitZero"
      [] build = "exitNonZero" -> "cliExitNonZero"

\* The config the command line entry builds from its arguments.
CliConfig(cliArgs) ==
    [present |-> TRUE, projectPath |-> TRUE, buildPromise |-> "function",
     postReleasePromise |-> FALSE, releaseVersion |-> cliArgs.releaseVersion,
     nextDevVersion |-> NoVersion, devVersion |-> cliArgs.devVersion,
     debug |-> cliArgs.debug, build |-> CliBuildPromise(cliArgs.build)]

\* Whether perform was called by the command line entry.
IsCli(c) == c.build # "callable"

\* The name field of a package.json that has one.
ProjectName == "test-project"

VARIABLES
    pkgName,          \* name field of package.json, "" when it has none
    again,            \* whether this is a later perform of the process
    rollbackCalls,    \* calls of the post-release result's rollback function
    cfg,              \* config of the perform call
    pc,               \* position in perform's promise chain
    outcome,          \* "none", "threw", "resolved" or "rejected"
    result,           \* the value perform resolved with
    rejection,        \* message of the error perform rejected with
    error,            \* message of the error the catch handler received
    preReleaseCommit, devBranch, devVersion, releaseVersion,
    releaseTagName, nextDevVersion,          \* perform's closure variables
    disk,             \* package.json on disk
    cache,            \* require cache entry of package.json
    fsLog,            \* file operations on the project, in order
    commits,          \* package.json as committed, by commit id
    head,             \* commit id of HEAD
    tags,             \* local tags
    remoteTags,       \* tags on origin
    remoteHead,       \* commit id of the dev branch on origin
    dirty,            \* uncommitted changes to files other than package.json
    gitlog,           \* git commands issued, in order
    buildCalls, buildInfo, buildOutcome,
    postCalls, postInfo, postOutcome,
    debugEnabled,     \* Release.debugEnabled
    debugLog          \* whether a debug line was printed

sessionVars ==
    <<preReleaseCommit, devBranch, devVersion, releaseVersion,
      releaseTagName, nextDevVersion>>
fileVars == <<disk, cache, fsLog>>
repoVars == <<commits, head, tags, remoteTags, remoteHead, dirty>>
stepVars ==
    <<buildCalls, buildInfo, buildOutcome, postCalls, postInfo, postOutcome>>
settleVars == <<outcome, result, rejection>>
vars ==
    <<pkgName, again, rollbackCalls, cfg, pc, error, sessionVars, fileVars, repoVars, gitlog, stepVars,
      settleVars, debugEnabled, debugLog>>

NoResult == [releaseVersion |-> NoVersion, devVersion |-> NoVersion]

----------------------------------------------------------------------------
(* Version policy *)

\* checkVersion's two tests: the marker is present and splitting on "."
\* yields exactly three parts.
HasSnapshot(v) == v.snap
HasThreeParts(v) == Len(v.nums) = 3

VersionAcceptedNoSplitCheck(v) == HasSnapshot(v)
VersionAccepted(v) == HasSnapshot(v) /\ HasThreeParts(v)

\* semver.inc(v, 'patch'): null for an invalid version; a prerelease of
\* X.Y.Z becomes X.Y.Z itself; otherwise the patch number goes up by one.
SemverIncAlwaysBumps(v) ==
    IF Len(v.nums) # 3 THEN NoVersion
    ELSE Ver(<<v.nums[1], v.nums[2], v.nums[3] + 1>>, FALSE)
SemverInc(v) ==
    IF Len(v.nums) # 3 THEN NoVersion
    ELSE IF v.snap THEN Ver(v.nums, FALSE)
    ELSE Ver(<<v.nums[1], v.nums[2], v.nums[3] + 1>>, FALSE)

\* v + '-SNAPSHOT'
AppendSnapshotForgotten(v) == v
AppendSnapshot(v) == Ver(v.nums, TRUE)

\* config.releaseVersion || semver.inc(devVersion,'patch')
PickReleaseVersionIgnoresConfig(c, dev) == SemverInc(dev)
PickReleaseVersion(c, dev) ==
    IF c.releaseVersion # NoVersion THEN c.releaseVersion ELSE SemverInc(dev)

\* config.nextDevVersion || semver.inc(releaseVersion,'patch') + '-SNAPSHOT'
PickNextDevVersion(c, rel) ==
    IF c.nextDevVersion # NoVersion THEN c.nextDevVersion
    ELSE AppendSnapshot(SemverInc(rel))

----------------------------------------------------------------------------
(* Errors: an error is its message, a sequence of text pieces *)

GitError(cmd) == <<"Could not execute git", cmd>>
NonSnapshotError == <<"Can not release a non-SNAPSHOT version">>
NotSemverError == <<"Project version must be semver compliant">>
ManifestError == <<"package.json could not be loaded">>
NoVersionError == <<"TypeError: version is undefined">>
UncommittedError == <<"Outstanding git changes present">>
NoCommitError == <<"Could not read current commit.">>
NoBranchError == <<"Could not read current branch.">>
WriteError == <<"package.json could not be written">>
BuildError == <<"build has failed!">>
CliBuildError == <<"Build failed with exit code">>
PostReleaseError == <<"post-release task failed">>
NoError == <<>>

\* new Error(error): the message is String(error), "Error: " + error.message.
RethrownDropsMessage(e) == <<"Error">>
Rethrown(e) == <<"Error: ">> \o e

\* m contains orig as a contiguous part.
Carries(m, orig) ==
    \E i \in 0..(Len(m) - Len(orig)) : SubSeq(m, i + 1, i + Len(orig)) = orig

----------------------------------------------------------------------------
(* Git commands *)

\* One invocation of Release.git: the subcommand, the message template and
\* the version in it, the tag or ref named, the commit named, the branch.
Cmd(c, m, v, r, k, b) ==
    [cmd |-> c, msg |-> m, ver |-> v, ref |-> r, commit |-> k, branch |-> b]

StatusCmd == Cmd("status", "--porcelain", NoVersion, NoVersion, NoCommit, "")
VerifyCmd == Cmd("rev-parse", "--verify HEAD", NoVersion, NoVersion, NoCommit, "")
AbbrevCmd == Cmd("rev-parse", "--abbrev-ref HEAD", NoVersion, NoVersion, NoCommit, "")
CommitCmd(m, v) == Cmd("commit", m, v, NoVersion, NoCommit, "")
TagCmd(v, name) == Cmd("tag", "release", v, name, NoCommit, "")
PushRefCmd(name) == Cmd("push", "", NoVersion, name, NoCommit, "")
PushBranchCmd(b) == Cmd("push", "", NoVersion, NoVersion, NoCommit, b)
ResetCmd(k) == Cmd("reset", "--hard", NoVersion, NoVersion, k, "")
DeleteTagCmd(name) == Cmd("tag -d", "", NoVersion, name, NoCommit, "")

ReleasingMsg == "[release] - releasing"
DevMsg == "[release] - updating dev version to"

\* The commands that change the local repository or the remote.
Mutating(c) == c.cmd \in {"commit", "tag", "push", "reset", "tag -d"}

Git(c) == gitlog' = Append(gitlog, c)

\* Release.debug prints only while Release.debugEnabled is set.
Debug == debugLog' = (debugLog \/ debugEnabled)

\* A rejected step: the chain skips to the catch handler with the error.
Fail(e) == pc' = "catch" /\ error' = e

\* A resolved step: the chain goes on with the next handler.
Goto(p) == pc' = p /\ UNCHANGED error

----------------------------------------------------------------------------
Init ==
    /\ cfg = NoConfig
    /\ again = FALSE
    /\ rollbackCalls = 0
    /\ pc = "idle"
    /\ outcome = "none"
    /\ result = NoResult
    /\ rejection = NoError
    /\ error = NoError
    /\ preReleaseCommit = NoCommit
    /\ devBranch = ""
    /\ devVersion = NoVersion
    /\ releaseVersion = NoVersion
    /\ releaseTagName = NoVersion
    /\ nextDevVersion = NoVersion
    /\ disk \in {AbsentFile, EmptyFile, File("json", NoVersion)}
                \cup {File("json", v) : v \in ManifestVersions}
    /\ pkgName \in (IF disk.state = "json" THEN {"", ProjectName} ELSE {""})
    /\ cache = Unloaded
    /\ fsLog = <<>>
    /\ commits = <<disk>>
    /\ head = 1
    /\ tags = {}
    /\ remoteTags = {}
    /\ remoteHead = 1
    /\ dirty \in BOOLEAN
    /\ gitlog = <<>>
    /\ buildCalls = 0
    /\ buildInfo = NoVersion
    /\ buildOutcome = "none"
    /\ postCalls = 0
    /\ postInfo = NoVersion
    /\ postOutcome = "none"
    /\ debugEnabled = FALSE
    /\ debugLog = FALSE

\* perform throws synchronously: nothing of the chain runs.
Throw(msg) ==
    /\ outcome' = "threw"
    /\ rejection' = msg
    /\ pc' = "done"
    /\ UNCHANGED <<result, debugEnabled>>

\* fs.ensureFileSync(path): creates an empty file when there is none.
EnsureFileSync ==
    /\ disk' = IF disk.state = "absent" THEN EmptyFile ELSE disk
    /\ fsLog' = fsLog \o (IF disk.state = "absent"
                             THEN <<[op |-> "ensureFile", version |-> NoVersion],
                                    [op |-> "create", version |-> NoVersion]>>
                             ELSE <<[op |-> "ensureFile", version |-> NoVersion]>>)
    /\ UNCHANGED cache

\* perform(config), up to the start of the promise chain.
PerformWith(c) ==
    /\ pc = "idle"
    /\ cfg' = c
    /\ IF ~c.present
             THEN Throw(<<"Release requires a configuration object">>)
                  /\ UNCHANGED fileVars
           ELSE IF ~c.projectPath
             THEN Throw(<<"Release requires a projectPath configuration">>)
                  /\ UNCHANGED fileVars
           ELSE /\ EnsureFileSync
                /\ IF c.buildPromise # "function"
                     THEN Throw(<<"Release requires a buildPromise function">>)
                     ELSE /\ debugEnabled' = (debugEnabled \/ c.debug)
                          /\ pc' = "checkVersion"
                          /\ UNCHANGED settleVars
    /\ UNCHANGED <<pkgName, again, rollbackCalls, error, sessionVars, repoVars,
                   gitlog, stepVars, debugLog>>

\* A caller of the API calls perform.
Perform == \E c \in Configs : PerformWith(c)

\* The command line entry calls perform with the config it builds.
Cli == \E cliArgs \in CliArgs : PerformWith(CliConfig(cliArgs))

\* Release.checkVersion and the handler that remembers devVersion.
CheckVersion ==
    /\ pc = "checkVersion"
    /\ Debug
    /\ LET canLoad == cache.loaded \/ disk.state = "json"
           version == IF cache.loaded THEN cache.version ELSE disk.version
       IN  /\ fsLog' = IF cache.loaded THEN fsLog
                       ELSE Append(fsLog, [op |-> "read", version |-> NoVersion])
           /\ cache' = IF canLoad THEN Loaded(version) ELSE cache
           /\ IF ~canLoad THEN Fail(ManifestError) /\ UNCHANGED devVersion
              ELSE IF version = NoVersion
                THEN Fail(NoVersionError) /\ UNCHANGED devVersion
              ELSE IF ~VersionAccepted(version)
                THEN Fail(IF ~HasSnapshot(version) THEN NonSnapshotError
                          ELSE NotSemverError)
                     /\ UNCHANGED devVersion
              ELSE devVersion' = version /\ Goto("checkUncommitted")
    /\ UNCHANGED <<pkgName, again, rollbackCalls, cfg, preReleaseCommit, devBranch, releaseVersion,
                   releaseTagName, nextDevVersion, disk, repoVars, gitlog,
                   stepVars, settleVars, debugEnabled>>

\* git status --porcelain prints the changed paths of the working tree.
StatusOutputNonEmpty == dirty \/ disk # commits[head]

CheckUncommittedRejectsNever(nonEmpty) == FALSE
CheckUncommittedRejects(nonEmpty) == nonEmpty

\* Release.checkUncommitted.
CheckUncommitted ==
    /\ pc = "checkUncommitted"
    /\ Debug
    /\ Git(StatusCmd)
    /\ \E ok \in BOOLEAN :
        IF ~ok THEN Fail(GitError("status"))
        ELSE IF CheckUncommittedRejects(StatusOutputNonEmpty)
          THEN Fail(UncommittedError)
        ELSE Goto("readCurrentCommit")
    /\ UNCHANGED <<pkgName, again, rollbackCalls, cfg, sessionVars, fileVars, repoVars, stepVars,
                   settleVars, debugEnabled>>

\* Release.readCurrentCommit and the handler that remembers the commit.
ReadCurrentCommit ==
    /\ pc = "readCurrentCommit"
    /\ Debug
    /\ Git(VerifyCmd)
    /\ \E r \in {"fail", "empty", "ok"} :
        CASE r = "fail" -> Fail(GitError("rev-parse")) /\ UNCHANGED preReleaseCommit
          [] r = "empty" -> Fail(NoCommitError) /\ UNCHANGED preReleaseCommit
          [] r = "ok" -> preReleaseCommit' = head /\ Goto("readCurrentBranch")
    /\ UNCHANGED <<pkgName, again, rollbackCalls, cfg, devBranch, devVersion, releaseVersion, releaseTagName,
                   nextDevVersion, fileVars, repoVars, stepVars, settleVars,
                   debugEnabled>>

\* Release.readCurrentBranch and the handler that remembers the branch.
ReadCurrentBranch ==
    /\ pc = "readCurrentBranch"
    /\ Debug
    /\ Git(AbbrevCmd)
    /\ \E r \in {"fail", "empty", "ok"} :
        CASE r = "fail" -> Fail(GitError("rev-parse")) /\ UNCHANGED devBranch
          [] r = "empty" -> Fail(NoBranchError) /\ UNCHANGED devBranch
          [] r = "ok" -> devBranch' = "master" /\ Goto("bumpRelease")
    /\ UNCHANGED <<pkgName, again, rollbackCalls, cfg, preReleaseCommit, devVersion, releaseVersion,
                   releaseTagName, nextDevVersion, fileVars, repoVars, stepVars,
                   settleVars, debugEnabled>>

\* Release.updateVersion: the cached manifest object gets the version, then
\* the whole object is written; a failing write leaves the file as it was.
UpdateVersion(newVersion, ok, next) ==
    IF ~(cache.loaded \/ disk.state = "json")
      THEN Fail(ManifestError) /\ UNCHANGED fileVars
    ELSE /\ cache' = Loaded(newVersion)
         /\ IF ok
              THEN /\ disk' = File("json", newVersion)
                   /\ fsLog' = Append(fsLog, [op |-> "write", version |-> newVersion])
                   /\ Goto(next)
              ELSE /\ Fail(WriteError)
                   /\ UNCHANGED <<disk, fsLog>>

\* The handler that picks the release version and writes it.
BumpRelease ==
    /\ pc = "bumpRelease"
    /\ Debug
    /\ releaseVersion' = PickReleaseVersion(cfg, devVersion)
    /\ \E ok \in BOOLEAN : UpdateVersion(releaseVersion', ok, "build")
    /\ UNCHANGED <<pkgName, again, rollbackCalls, cfg, preReleaseCommit, devBranch, devVersion, releaseTagName,
                   nextDevVersion, repoVars, gitlog, stepVars, settleVars,
                   debugEnabled>>

\* What a caller-supplied step may do: return a value, return a promise that
\* resolves or rejects, or throw.
StepOutcomes == {"return", "resolve", "throw", "reject"}
StepFailedOnlyThrow(o) == o = "throw"
StepFailed(o) == o \in {"throw", "reject"}

\* The exit listener of the command line's build process on a non-zero exit
\* code: it evaluates the undeclared name exitCode
\* before it calls reject, which throws a ReferenceError out of the listener;
\* nothing catches it, the promise stays pending and the process ends.
CliExitListener == "uncaught"

\* What config.buildPromise may do: a function of the caller may do anything
\* a step may; the command line's returns true without --build, resolves
\* when the command exits with 0, and otherwise does what its exit listener
\* does.
BuildOutcomes(c) ==
    CASE c.build = "callable" -> StepOutcomes
      [] c.build = "cliNoBuild" -> {"return"}
      [] c.build = "cliExitZero" -> {"resolve"}
      [] c.build = "cliExitNonZero" -> {CliExitListener}

\* The handler that calls config.buildPromise({releaseVersion}).
Build ==
    /\ pc = "build"
    /\ Debug
    /\ buildCalls' = buildCalls + 1
    /\ buildInfo' = releaseVersion
    /\ \E o \in BuildOutcomes(cfg) :
        /\ buildOutcome' = o
        /\ IF o = "uncaught" THEN pc' = "crashed" /\ UNCHANGED error
           ELSE IF StepFailed(o)
             THEN Fail(IF IsCli(cfg) THEN CliBuildError ELSE BuildError)
           ELSE Goto("commitRelease")
    /\ UNCHANGED <<pkgName, again, rollbackCalls, cfg, sessionVars, fileVars, repoVars, gitlog, postCalls,
                   postInfo, postOutcome, settleVars, debugEnabled>>

\* git commit package.json -m message: HEAD moves to a new commit that holds
\* package.json as it is on disk; git refuses a commit that changes nothing.
GitCommit(m, v, ok, next) ==
    /\ Git(CommitCmd(m, v))
    /\ IF ok /\ disk # commits[head]
         THEN /\ commits' = Append(commits, disk)
              /\ head' = Len(commits) + 1
              /\ Goto(next)
         ELSE /\ Fail(GitError("commit"))
              /\ UNCHANGED <<commits, head>>
    /\ UNCHANGED <<tags, remoteTags, remoteHead, dirty>>

\* The handler that commits the release version.
CommitRelease ==
    /\ pc = "commitRelease"
    /\ Debug
    /\ \E ok \in BOOLEAN : GitCommit(ReleasingMsg, releaseVersion, ok, "tag")
    /\ UNCHANGED <<pkgName, again, rollbackCalls, cfg, sessionVars, fileVars, stepVars, settleVars, debugEnabled>>

\* The name Release.tag gives the tag, and the value its promise resolves to.
TagName(version) == version
TagResolutionGitResult(version) == Ver(<<>>, TRUE)
TagResolution(version) == version

\* The handler that tags the release, and the next one's first statement,
\* which remembers the tag name; git refuses a tag name that exists.
Tag ==
    /\ pc = "tag"
    /\ Debug
    /\ Git(TagCmd(releaseVersion, TagName(releaseVersion)))
    /\ \E ok \in (IF TagName(releaseVersion) \in tags THEN {FALSE} ELSE BOOLEAN) :
        IF ok
          THEN /\ tags' = tags \cup {TagName(releaseVersion)}
               /\ releaseTagName' = TagResolution(releaseVersion)
               /\ Goto("postRelease")
          ELSE /\ Fail(GitError("tag"))
               /\ UNCHANGED <<tags, releaseTagName>>
    /\ UNCHANGED <<pkgName, again, rollbackCalls, cfg, preReleaseCommit, devBranch, devVersion, releaseVersion,
                   nextDevVersion, fileVars, commits, head, remoteTags,
                   remoteHead, dirty, stepVars, settleVars, debugEnabled>>

\* A post-release step may also resolve to an object with a rollback
\* property.
PostOutcomes == StepOutcomes \cup {"resolveWithRollback"}

\* The rest of that handler: config.postReleasePromise({releaseVersion}),
\* when there is one.
PostRelease ==
    /\ pc = "postRelease"
    /\ Debug
    /\ IF cfg.postReleasePromise
         THEN /\ postCalls' = postCalls + 1
              /\ postInfo' = releaseVersion
              /\ \E o \in PostOutcomes :
                    /\ postOutcome' = o
                    /\ IF StepFailed(o) THEN Fail(PostReleaseError)
                       ELSE Goto("bumpNextDev")
         ELSE /\ Goto("bumpNextDev")
              /\ UNCHANGED <<postCalls, postInfo, postOutcome>>
    /\ UNCHANGED <<pkgName, again, rollbackCalls, cfg, sessionVars, fileVars, repoVars, gitlog, buildCalls,
                   buildInfo, buildOutcome, settleVars, debugEnabled>>

\* The handler that picks the next development version and writes it.
BumpNextDev ==
    /\ pc = "bumpNextDev"
    /\ Debug
    /\ nextDevVersion' = PickNextDevVersion(cfg, releaseVersion)
    /\ \E ok \in BOOLEAN : UpdateVersion(nextDevVersion', ok, "commitDev")
    /\ UNCHANGED <<pkgName, again, rollbackCalls, cfg, preReleaseCommit, devBranch, devVersion, releaseVersion,
                   releaseTagName, repoVars, gitlog, stepVars, settleVars,
                   debugEnabled>>

\* The handler without its commit: the chain goes on with nothing committed.
CommitDevMissing ==
    /\ pc = "commitDev"
    /\ Debug
    /\ Goto("pushTag")
    /\ UNCHANGED <<pkgName, again, rollbackCalls, cfg, sessionVars, fileVars, repoVars, gitlog, stepVars,
                   settleVars, debugEnabled>>

\* The handler that commits the next development version.
CommitDev ==
    /\ pc = "commitDev"
    /\ Debug
    /\ \E ok \in BOOLEAN : GitCommit(DevMsg, nextDevVersion, ok, "pushTag")
    /\ UNCHANGED <<pkgName, again, rollbackCalls, cfg, sessionVars, fileVars, stepVars, settleVars, debugEnabled>>

\* The ref the push-tag handler pushes.
PushedRef == releaseVersion

\* The chain without its push-tag handler.
PushTagSkipped ==
    /\ pc = "pushTag"
    /\ Debug
    /\ Goto("pushBranch")
    /\ UNCHANGED <<pkgName, again, rollbackCalls, cfg, sessionVars, fileVars, repoVars, gitlog, stepVars,
                   settleVars, debugEnabled>>

\* The handler that pushes the release tag; git can push only a ref it has.
PushTag ==
    /\ pc = "pushTag"
    /\ Debug
    /\ Git(PushRefCmd(PushedRef))
    /\ \E ok \in (IF PushedRef \in tags THEN BOOLEAN ELSE {FALSE}) :
        IF ok
          THEN remoteTags' = remoteTags \cup {PushedRef} /\ Goto("pushBranch")
          ELSE Fail(GitError("push")) /\ UNCHANGED remoteTags
    /\ UNCHANGED <<pkgName, again, rollbackCalls, cfg, sessionVars, fileVars, commits, head, tags, remoteHead,
                   dirty, stepVars, settleVars, debugEnabled>>

\* The handler that pushes the development branch.
PushBranch ==
    /\ pc = "pushBranch"
    /\ Debug
    /\ Git(PushBranchCmd(devBranch))
    /\ \E ok \in BOOLEAN :
        IF ok
          THEN remoteHead' = head /\ Goto("publish")
          ELSE Fail(GitError("push")) /\ UNCHANGED remoteHead
    /\ UNCHANGED <<pkgName, again, rollbackCalls, cfg, sessionVars, fileVars, commits, head, tags, remoteTags,
                   dirty, stepVars, settleVars, debugEnabled>>

\* The last handler: perform resolves with the release information.
Publish ==
    /\ pc = "publish"
    /\ Debug
    /\ result' = [releaseVersion |-> releaseVersion, devVersion |-> nextDevVersion]
    /\ outcome' = "resolved"
    /\ pc' = "done"
    /\ UNCHANGED <<pkgName, again, rollbackCalls, cfg, error, rejection, sessionVars, fileVars, repoVars,
                   gitlog, stepVars, debugEnabled>>

\* The rollback command's error lost behind the error that started the
\* rollback.
RejectWithOriginal(msg) ==
    /\ outcome' = "rejected"
    /\ rejection' = Rethrown(error)
    /\ pc' = "done"
    /\ UNCHANGED <<result, error>>

\* A rollback command failed: its error is what perform rejects with.
Reject(msg) ==
    /\ outcome' = "rejected"
    /\ rejection' = msg
    /\ pc' = "done"
    /\ UNCHANGED <<result, error>>

\* Release.reset runs git only when it is given a commit.
ResetIssuedAlways(commit) == TRUE
ResetIssuedNever(commit) == FALSE
ResetIssued(commit) == commit # NoCommit

\* The catch handler's first step, Release.reset: git reset --hard puts HEAD
\* and the working tree back to the commit.
Reset ==
    /\ pc = "catch"
    /\ Debug
    /\ IF ~ResetIssued(preReleaseCommit)
         THEN /\ Goto("deleteTag")
              /\ UNCHANGED <<gitlog, head, disk, dirty, settleVars>>
         ELSE /\ Git(ResetCmd(preReleaseCommit))
              /\ \E ok \in (IF preReleaseCommit \in DOMAIN commits
                              THEN BOOLEAN ELSE {FALSE}) :
                    IF ok
                      THEN /\ head' = preReleaseCommit
                           /\ disk' = commits[preReleaseCommit]
                           /\ dirty' = FALSE
                           /\ Goto("deleteTag")
                           /\ UNCHANGED settleVars
                      ELSE /\ Reject(GitError("reset"))
                           /\ UNCHANGED <<head, disk, dirty>>
    /\ UNCHANGED <<pkgName, again, rollbackCalls, cfg, sessionVars, cache, fsLog, commits, tags, remoteTags,
                   remoteHead, stepVars, debugEnabled>>

\* Release.deleteTag runs git only when it is given a tag name.
DeleteTagIssuedAlways(tagName) == TRUE
DeleteTagIssued(tagName) == tagName # NoVersion

\* The catch handler's second step, Release.deleteTag.
DeleteTag ==
    /\ pc = "deleteTag"
    /\ Debug
    /\ IF ~DeleteTagIssued(releaseTagName)
         THEN /\ Goto("rethrow")
              /\ UNCHANGED <<gitlog, tags, settleVars>>
         ELSE /\ Git(DeleteTagCmd(releaseTagName))
              /\ \E ok \in (IF releaseTagName \in tags THEN BOOLEAN ELSE {FALSE}) :
                    IF ok
                      THEN /\ tags' = tags \ {releaseTagName}
                           /\ Goto("rethrow")
                           /\ UNCHANGED settleVars
                      ELSE /\ Reject(GitError("tag -d"))
                           /\ UNCHANGED tags
    /\ UNCHANGED <<pkgName, again, rollbackCalls, cfg, sessionVars, fileVars, commits, head, remoteTags,
                   remoteHead, dirty, stepVars, debugEnabled>>

\* The catch handler without its last step: the promise it returns resolves
\* with undefined, so perform resolves.
RethrowSwallowed ==
    /\ pc = "rethrow"
    /\ outcome' = "resolved"
    /\ pc' = "done"
    /\ UNCHANGED <<pkgName, again, rollbackCalls, cfg, error, result, rejection, sessionVars, fileVars,
                   repoVars, gitlog, stepVars, debugEnabled, debugLog>>

\* The catch handler's last step: throw new Error(error).
Rethrow ==
    /\ pc = "rethrow"
    /\ outcome' = "rejected"
    /\ rejection' = Rethrown(error)
    /\ pc' = "done"
    /\ UNCHANGED <<pkgName, again, rollbackCalls, cfg, error, result, sessionVars, fileVars, repoVars, gitlog,
                   stepVars, debugEnabled, debugLog>>

Next ==
    \/ Perform
    \/ Cli
    \/ CheckVersion
    \/ CheckUncommitted
    \/ ReadCurrentCommit
    \/ ReadCurrentBranch
    \/ BumpRelease
    \/ Build
    \/ CommitRelease
    \/ Tag
    \/ PostRelease
    \/ BumpNextDev
    \/ CommitDev
    \/ PushTag
    \/ PushBranch
    \/ Publish
    \/ Reset
    \/ DeleteTag
    \/ Rethrow

Spec == Init /\ [][Next]_vars

\* The handlers of perform's promise chain.
Steps ==
    \/ CheckVersion
    \/ CheckUncommitted
    \/ ReadCurrentCommit
    \/ ReadCurrentBranch
    \/ BumpRelease
    \/ Build
    \/ CommitRelease
    \/ Tag
    \/ PostRelease
    \/ BumpNextDev
    \/ CommitDev
    \/ PushTag
    \/ PushBranch
    \/ Publish
    \/ Reset
    \/ DeleteTag
    \/ Rethrow

\* Every git subprocess ends, by itself or by the 30 s timeout of execFile,
\* every caller-supplied step settles, and the promise library runs the
\* handler of a settled promise: a handler that can run does run.
SpecLive == Spec /\ WF_vars(Steps)

\* The process calls perform once more after a perform has settled: the
\* closure variables and the callbacks are new, the observations start
\* afresh; the project, the require cache and Release.debugEnabled stay.
PerformAgain ==
    /\ pc = "done"
    /\ ~again
    /\ again' = TRUE
    /\ pc' = "idle"
    /\ cfg' = NoConfig
    /\ outcome' = "none"
    /\ result' = NoResult
    /\ rejection' = NoError
    /\ error' = NoError
    /\ preReleaseCommit' = NoCommit
    /\ devBranch' = ""
    /\ devVersion' = NoVersion
    /\ releaseVersion' = NoVersion
    /\ releaseTagName' = NoVersion
    /\ nextDevVersion' = NoVersion
    /\ fsLog' = <<>>
    /\ gitlog' = <<>>
    /\ buildCalls' = 0
    /\ buildInfo' = NoVersion
    /\ buildOutcome' = "none"
    /\ postCalls' = 0
    /\ postInfo' = NoVersion
    /\ postOutcome' = "none"
    /\ debugLog' = FALSE
    /\ UNCHANGED <<pkgName, rollbackCalls, disk, cache, repoVars, debugEnabled>>

NextSeq == Next \/ PerformAgain

\* A project that can be released: package.json has no name and holds a
\* development version 0.0.Z-SNAPSHOT.
InitSeq ==
    /\ Init
    /\ pkgName = ""
    /\ disk \in {File("json", Ver(<<0, 0, z>>, TRUE)) : z \in Nums}

\* A process that calls perform up to twice on such a project.
SpecSeq == InitSeq /\ [][NextSeq]_vars

----------------------------------------------------------------------------
(* Properties *)

MutatingLog == SelectSeq(gitlog, Mutating)
Issued(kinds) == \E i \in 1..Len(gitlog) : gitlog[i].cmd \in kinds
CountOf(kind) == Len(SelectSeq(gitlog, LAMBDA c : c.cmd = kind))
IsWrite(e) == e.op = "write"
Writes == SelectSeq(fsLog, IsWrite)

\* package.json as it was before perform was called.
Original == commits[1]
\* What the command line entry prints once perform has settled.
CliOutput ==
    IF ~IsCli(cfg) THEN ""
    ELSE IF outcome = "resolved" THEN "Release Performed"
    ELSE IF outcome = "rejected" THEN "Release failed"
    ELSE ""

NoOverrides == cfg.releaseVersion = NoVersion /\ cfg.nextDevVersion = NoVersion
Settled == pc = "done"

\* C1: a perform that resolves has issued exactly five mutating git
\* commands: commit of the release version, tag, commit of the next dev
\* version, push of the release tag, push of the dev branch; no reset and no
\* tag -d among them.
C1_SuccessIssuesFiveCommands ==
    outcome = "resolved" =>
        MutatingLog = <<CommitCmd(ReleasingMsg, releaseVersion),
                        TagCmd(releaseVersion, releaseTagName),
                        CommitCmd(DevMsg, nextDevVersion),
                        PushRefCmd(releaseTagName),
                        PushBranchCmd(devBranch)>>

C1_Witness ==
    /\ outcome = "resolved"
    /\ Len(gitlog) = 8
    /\ remoteHead = head
    /\ releaseTagName \in remoteTags

\* C2: when the build step throws or rejects, no commit, tag, push or
\* tag -d is ever issued and no tag exists; once perform has settled it has
\* rejected, and exactly one reset --hard preReleaseCommit was issued, as the
\* last git command.
C2_BuildFailureRollsBack ==
    StepFailed(buildOutcome) =>
        /\ ~Issued({"commit", "tag", "push", "tag -d"})
        /\ tags = {}
        /\ outcome # "resolved"
        /\ Settled =>
            /\ outcome = "rejected"
            /\ CountOf("reset") = 1
            /\ preReleaseCommit # NoCommit
            /\ gitlog[Len(gitlog)] = ResetCmd(preReleaseCommit)

C2_Witness ==
    /\ Settled
    /\ buildOutcome = "reject"
    /\ rejection = Rethrown(BuildError)
    /\ CountOf("reset") = 1

\* C3 (as claimed): when the post-release step throws or rejects, the last
\* two git commands of the settled perform are reset --hard preReleaseCommit
\* and tag -d of the release tag, in that order.
C3_PostReleaseFailureResetThenDeleteTag ==
    (Settled /\ StepFailed(postOutcome)) =>
        /\ Len(gitlog) >= 2
        /\ gitlog[Len(gitlog) - 1] = ResetCmd(preReleaseCommit)
        /\ gitlog[Len(gitlog)] = DeleteTagCmd(TagName(releaseVersion))

\* The manifest held a version that lacks the marker or the three parts.
BadOriginalVersion ==
    /\ Original.state = "json"
    /\ Original.version # NoVersion
    /\ ~(HasSnapshot(Original.version) /\ HasThreeParts(Original.version))

\* C4: with a manifest version that lacks the SNAPSHOT marker or has not
\* exactly three parts, perform rejects and nothing is changed: no write of
\* the manifest, no build, no mutating git command, repository and manifest
\* as before.
C4_BadVersionChangesNothing ==
    BadOriginalVersion =>
        /\ Writes = <<>>
        /\ buildCalls = 0
        /\ MutatingLog = <<>>
        /\ disk = Original
        /\ head = 1 /\ Len(commits) = 1 /\ tags = {} /\ remoteTags = {}
        /\ outcome # "resolved"
        /\ (Settled /\ ValidConfig(cfg)) => outcome = "rejected"

C4_Witness ==
    /\ Settled
    /\ outcome = "rejected"
    /\ BadOriginalVersion
    /\ HasSnapshot(Original.version)
    /\ rejection = Rethrown(NotSemverError)

\* git status --porcelain ran and printed something.
StatusReportedOutput ==
    /\ dirty
    /\ Issued({"status"})
    /\ error # GitError("status")

C6_ConfigErrorBeforeAnyIO ==
    (Settled /\ ~ValidConfig(cfg)) =>
        /\ outcome = "threw"
        /\ gitlog = <<>>
        /\ fsLog = <<>>
        /\ disk = Original

\* The version X.Y.(Z+n), with or without the marker.
PatchPlus(v, n, s) == Ver(<<v.nums[1], v.nums[2], v.nums[3] + n>>, s)

\* C7 (as claimed): without overrides a resolved perform on X.Y.Z-SNAPSHOT
\* returns releaseVersion X.Y.(Z+1) and devVersion X.Y.(Z+2)-SNAPSHOT.
C7_ReleaseIsNextPatch ==
    (outcome = "resolved" /\ NoOverrides) =>
        /\ result.releaseVersion = PatchPlus(Original.version, 1, FALSE)
        /\ result.devVersion = PatchPlus(Original.version, 2, TRUE)

\* C7 (amended): without overrides a resolved perform on X.Y.Z-SNAPSHOT
\* returns releaseVersion X.Y.Z and devVersion X.Y.(Z+1)-SNAPSHOT.
C7_ReleaseIsStrippedVersion ==
    (outcome = "resolved" /\ NoOverrides) =>
        /\ result.releaseVersion = PatchPlus(Original.version, 0, FALSE)
        /\ result.devVersion = PatchPlus(Original.version, 1, TRUE)

C7_Witness ==
    /\ outcome = "resolved"
    /\ NoOverrides
    /\ HasSnapshot(Original.version)
    /\ result.releaseVersion.nums = Original.version.nums

\* C8: without overrides, on X.Y.Z-SNAPSHOT the build step is given X.Y.Z,
\* and a resolved perform returns X.Y.Z and X.Y.(Z+1)-SNAPSHOT and leaves
\* exactly the returned devVersion in the manifest on disk.
C8_EndToEndVersions ==
    /\ (NoOverrides /\ buildCalls > 0) =>
            buildInfo = PatchPlus(Original.version, 0, FALSE)
    /\ (NoOverrides /\ outcome = "resolved") =>
        /\ result = [releaseVersion |-> PatchPlus(Original.version, 0, FALSE),
                     devVersion |-> PatchPlus(Original.version, 1, TRUE)]
        /\ disk = File("json", result.devVersion)
        /\ HasSnapshot(disk.version)

C8_Witness ==
    /\ outcome = "resolved"
    /\ NoOverrides
    /\ Original.version = Ver(<<1, 0, 1>>, TRUE)
    /\ buildInfo = Ver(<<1, 0, 1>>, FALSE)
    /\ disk.version = Ver(<<1, 0, 2>>, TRUE)

\* The version every use of the release version must show, when config
\* names one, and likewise for the next development version.
UsesRelease(v) ==
    /\ releaseVersion \in {NoVersion, v}
    /\ Len(Writes) >= 1 => Writes[1].version = v
    /\ buildCalls > 0 => buildInfo = v
    /\ postCalls > 0 => postInfo = v
    /\ \A i \in 1..Len(gitlog) :
        /\ (gitlog[i].cmd = "commit" /\ gitlog[i].msg = ReleasingMsg)
              => gitlog[i].ver = v
        /\ gitlog[i].cmd = "tag" => (gitlog[i].ver = v /\ gitlog[i].ref = v)
    /\ Len(commits) >= 2 => commits[2].version = v
    /\ tags \subseteq {v}
    /\ outcome = "resolved" => result.releaseVersion = v

UsesNextDev(v) ==
    /\ nextDevVersion \in {NoVersion, v}
    /\ Len(Writes) >= 2 => Writes[2].version = v
    /\ \A i \in 1..Len(gitlog) :
        (gitlog[i].cmd = "commit" /\ gitlog[i].msg = DevMsg) => gitlog[i].ver = v
    /\ Len(commits) >= 3 => commits[3].version = v
    /\ outcome = "resolved" => result.devVersion = v

\* C9: a supplied config.releaseVersion is the version written, given to
\* the build and post-release steps, committed, tagged and returned; a
\* supplied config.nextDevVersion is the one written, committed and
\* returned; a derived value appears only where the override is absent.
C9_OverridesTakePrecedence ==
    /\ cfg.releaseVersion # NoVersion => UsesRelease(cfg.releaseVersion)
    /\ cfg.nextDevVersion # NoVersion => UsesNextDev(cfg.nextDevVersion)
    /\ (ValidConfig(cfg) /\ cfg.releaseVersion = NoVersion /\ devVersion # NoVersion)
            => UsesRelease(PatchPlus(devVersion, 0, FALSE))
    /\ (ValidConfig(cfg) /\ cfg.nextDevVersion = NoVersion
            /\ releaseVersion # NoVersion)
            => UsesNextDev(PatchPlus(releaseVersion, 1, TRUE))

C9_Witness ==
    /\ outcome = "resolved"
    /\ cfg.postReleasePromise
    /\ result = [releaseVersion |-> ReleaseOverride, devVersion |-> DevOverride]
    /\ postInfo = ReleaseOverride
    /\ ReleaseOverride \in remoteTags

RollbackCommandFailed == rejection \in {GitError("reset"), GitError("tag -d")}

\* The errors the steps from check-version to push-branch raise.
StepErrors ==
    {ManifestError, NoVersionError, NonSnapshotError, NotSemverError,
     UncommittedError, NoCommitError, NoBranchError, WriteError, BuildError,
     PostReleaseError, GitError("status"), GitError("rev-parse"),
     GitError("commit"), GitError("tag"), GitError("push")}

\* C10: once a step has raised an error perform never resolves, and when
\* the rollback has run with no rollback command failing, perform rejects
\* with an error whose message carries the message of the error raised.
C10_RollbackRethrowsOriginal ==
    error # NoError =>
        /\ error \in StepErrors
        /\ outcome # "resolved"
        /\ (Settled /\ ~RollbackCommandFailed) =>
            /\ outcome = "rejected"
            /\ Carries(rejection, error)

C10_Witness ==
    /\ Settled
    /\ error = GitError("push")
    /\ releaseTagName \in remoteTags
    /\ CountOf("reset") = 1 /\ CountOf("tag -d") = 1
    /\ outcome = "rejected"
    /\ Carries(rejection, GitError("push"))

\* The position of the first command of the kind in gitlog, 0 when none.
FirstOf(kind) ==
    IF \E i \in 1..Len(gitlog) : gitlog[i].cmd = kind
      THEN CHOOSE i \in 1..Len(gitlog) :
             /\ gitlog[i].cmd = kind
             /\ \A j \in 1..(i - 1) : gitlog[j].cmd # kind
      ELSE 0

\* C11 (as claimed): when a step fails after releaseTagName was recorded,
\* the settled perform has issued tag -d releaseTagName after the reset,
\* whatever the outcome of the reset.
C11_TagDeletedAfterEveryReset ==
    (Settled /\ error # NoError /\ releaseTagName # NoVersion) =>
        /\ FirstOf("reset") > 0
        /\ FirstOf("tag -d") > FirstOf("reset")
        /\ gitlog[FirstOf("tag -d")] = DeleteTagCmd(releaseTagName)

\* C12: a rollback step that ends perform (a failed reset or a failed
\* tag -d) makes perform reject with the error of that command, the last
\* one in gitlog, and not with the error that started the rollback.
C12_RollbackErrorReplacesOriginal ==
    [][(pc \in {"catch", "deleteTag"} /\ pc' = "done") =>
          /\ outcome' = "rejected"
          /\ gitlog' # gitlog
          /\ gitlog'[Len(gitlog')].cmd \in {"reset", "tag -d"}
          /\ rejection' = GitError(gitlog'[Len(gitlog')].cmd)
          /\ ~Carries(rejection', error)]_vars

C12_Witness ==
    /\ Settled
    /\ error = PostReleaseError
    /\ rejection = GitError("tag -d")
    /\ releaseTagName \in tags
    /\ head = preReleaseCommit

\* The commands that name a tag: tag, push of a ref, tag -d.
NamesTag(c) == c.cmd \in {"tag", "tag -d"} \/ (c.cmd = "push" /\ c.branch = "")

PackageTag(n, v) == [name |-> n, nums |-> v.nums, snap |-> v.snap]

\* C14 (as claimed): when package.json has a name, the tag created, pushed
\* and deleted on rollback is named <package name>-<releaseVersion>.
C14_TagNamedByPackageAndVersion ==
    pkgName # "" =>
        \A i \in 1..Len(gitlog) :
            NamesTag(gitlog[i]) =>
                gitlog[i].ref = PackageTag(pkgName, releaseVersion)

\* C15 (as claimed): when the post-release step resolved to an object with
\* a rollback property and the release then failed, that rollback function
\* has been called.
C15_PostReleaseRollbackCalled ==
    (Settled /\ postOutcome = "resolveWithRollback" /\ outcome = "rejected")
        => rollbackCalls > 0

\* C16 (as claimed): perform on a project without package.json throws at
\* config validation and leaves the project without package.json.
C16_MissingManifestNotCreated ==
    (Settled /\ cfg.present /\ cfg.projectPath /\ Original.state = "absent") =>
        /\ outcome = "threw"
        /\ disk = AbsentFile

\* C17 (as claimed): the version given with --devVersion is the next
\* development version written, committed and returned.
C17_CliDevVersionUsed ==
    cfg.devVersion # NoVersion => UsesNextDev(cfg.devVersion)

\* C18: after a perform that failed once the pre-release commit was
\* recorded and whose rollback commands succeeded, HEAD is the pre-release
\* commit, package.json on disk holds the original development version
\* and no local tag of the release exists.
C18_RollbackRestoresSnapshot ==
    (Settled /\ outcome = "rejected" /\ preReleaseCommit # NoCommit
        /\ ~RollbackCommandFailed) =>
        /\ head = preReleaseCommit
        /\ disk = Original
        /\ disk.version = devVersion
        /\ TagName(releaseVersion) \notin tags
        /\ tags = {}

C18_Witness ==
    /\ Settled
    /\ error = GitError("push")
    /\ rejection = Rethrown(error)
    /\ Len(commits) = 3
    /\ head = 1
    /\ disk = Original
    /\ releaseVersion \in remoteTags
    /\ tags = {}

\* The step that failed is check-version, the clean-tree check or the
\* reading of the current commit.
FailedBeforeCommitRead ==
    \/ error \in {ManifestError, NoVersionError, NonSnapshotError,
                  NotSemverError, UncommittedError, GitError("status"),
                  NoCommitError}
    \/ (error = GitError("rev-parse") /\ CountOf("rev-parse") = 1)

\* C20: once the reset step of a rollback is over, a reset --hard has been
\* issued exactly when the pre-release commit had been read: none, and no
\* tag -d, after a failure of check-version, of the clean-tree check or of
\* the commit read; exactly one, to preReleaseCommit, after a failure of
\* the branch read or of any later step.
C20_ResetIffCommitRead ==
    (error # NoError /\ pc \in {"deleteTag", "rethrow", "done"}) =>
        /\ Issued({"reset"}) <=> preReleaseCommit # NoCommit
        /\ FailedBeforeCommitRead =>
            /\ ~Issued({"reset", "tag -d"})
            /\ Settled => outcome = "rejected"
        /\ ~FailedBeforeCommitRead =>
            /\ CountOf("reset") = 1
            /\ preReleaseCommit # NoCommit
            /\ gitlog[FirstOf("reset")] = ResetCmd(preReleaseCommit)

C20_Witness ==
    /\ Settled
    /\ error = NoBranchError
    /\ CountOf("reset") = 1
    /\ gitlog[Len(gitlog)] = ResetCmd(preReleaseCommit)
    /\ rejection = Rethrown(NoBranchError)

\* An earlier perform of the process committed, failed and was rolled
\* back: HEAD and package.json are those of the first commit again.
RestoredByRollback ==
    /\ again
    /\ Len(commits) >= 2
    /\ head = 1
    /\ disk = commits[1]

\* C19 (as claimed): a perform, the first of a process or one that follows
\* a perform that failed and was rolled back, validates and releases the
\* version package.json holds on disk when it is called: the version check
\* accepts or refuses that version, and devVersion is that version.
C19_ReadsManifestOfThisCall ==
    (~again \/ RestoredByRollback) =>
        /\ pc = "checkUncommitted" => devVersion = disk.version
        /\ (pc = "catch" /\ error = NonSnapshotError) => HasSnapshot(disk.version) = FALSE
        /\ (pc = "catch" /\ error = NotSemverError) => HasThreeParts(disk.version) = FALSE

\* The checks before the build went through: the version was accepted, the
\* tree was clean, the commit and the branch were read, by the first three
\* git commands, and the first write of the manifest was releaseVersion.
ReadyToBuild ==
    /\ devVersion # NoVersion /\ VersionAccepted(devVersion)
    /\ ~dirty
    /\ preReleaseCommit # NoCommit
    /\ devBranch # ""
    /\ Len(gitlog) >= 3
    /\ SubSeq(gitlog, 1, 3) = <<StatusCmd, VerifyCmd, AbbrevCmd>>
    /\ Len(Writes) >= 1
    /\ Writes[1].version = releaseVersion

\* C21: the build step is invoked at most once, only after the version
\* check, the clean-tree check, the commit read and the branch read have
\* succeeded and the manifest was written with releaseVersion, and before
\* any commit is issued; a commit is issued only after a build that returned
\* or resolved.
C21_BuildOnceBeforeCommit ==
    /\ buildCalls <= 1
    /\ buildCalls = 1 => (ReadyToBuild /\ buildInfo = releaseVersion)
    /\ pc = "build" => (ReadyToBuild /\ ~Issued({"commit"}) /\ disk.version = releaseVersion)
    /\ Issued({"commit"}) =>
        (buildCalls = 1 /\ buildOutcome \in {"return", "resolve"})

C21_Witness ==
    /\ outcome = "resolved"
    /\ buildCalls = 1
    /\ buildOutcome = "resolve"
    /\ CountOf("commit") = 2

\* Position of the last command of a kind in the log, 0 when there is none.
LastOf(kind) ==
    IF \E i \in 1..Len(gitlog) : gitlog[i].cmd = kind
      THEN CHOOSE i \in 1..Len(gitlog) :
             /\ gitlog[i].cmd = kind
             /\ \A j \in (i + 1)..Len(gitlog) : gitlog[j].cmd # kind
      ELSE 0

\* C22: a push is issued only after the release commit, the tag and the
\* next-dev commit have succeeded; the first push is that of the release
\* tag and the branch push follows only a tag push that succeeded; as long
\* as no push was issued the remote is as it was.
C22_PushAfterCommitsTagFirst ==
    /\ Issued({"push"}) =>
        /\ Len(commits) = 3
        /\ commits[2].version = releaseVersion
        /\ commits[3].version = nextDevVersion
        /\ releaseTagName = releaseVersion
        /\ CountOf("commit") = 2 /\ CountOf("tag") = 1
        /\ LastOf("commit") < FirstOf("push")
        /\ FirstOf("tag") < FirstOf("push")
        /\ gitlog[FirstOf("push")] = PushRefCmd(releaseVersion)
    /\ CountOf("push") <= 2
    /\ CountOf("push") = 2 =>
        /\ gitlog[LastOf("push")] = PushBranchCmd(devBranch)
        /\ releaseVersion \in remoteTags
    /\ ~Issued({"push"}) => (remoteTags = {} /\ remoteHead = 1)

C22_Witness ==
    /\ pc = "publish"
    /\ CountOf("push") = 2
    /\ remoteHead = 3
    /\ remoteTags = {releaseVersion}

\* C23 (as claimed): once a perform has rejected, origin holds nothing of
\* the release: no release tag and the branch where it was.
C23_RemoteCleanAfterFailure ==
    (Settled /\ outcome = "rejected") =>
        /\ remoteTags = {}
        /\ remoteHead = 1

\* The build step was called and will never settle: the process ended in it.
BuildNeverSettles == pc = "crashed"

\* C24: a perform that passed the validation of its config eventually
\* settles, resolved or rejected, unless its build step never settles; one
\* that reached the catch handler eventually rejects; and a settled perform
\* stays settled as it is, so it never both resolves and rejects.
C24_SettlesExactlyOnce ==
    /\ (pc = "checkVersion") ~>
          ((Settled /\ outcome \in {"resolved", "rejected"}) \/ BuildNeverSettles)
    /\ (pc = "catch") ~> (Settled /\ outcome = "rejected")
    /\ [][outcome # "none" => UNCHANGED settleVars]_vars

C24_Witness ==
    /\ Settled
    /\ outcome = "rejected"
    /\ rejection = Rethrown(GitError("push"))
    /\ CountOf("reset") = 1
    /\ CountOf("tag -d") = 1

\* C25 (as claimed): when the command line's build command has exited with
\* a non-zero code, the build step has rejected with the build-failed error:
\* perform is in its rollback or has rejected, and once it has settled the
\* reset to the pre-release commit was issued and the command line printed
\* the failure.
C25_CliBuildFailureRollsBack ==
    (cfg.build = "cliExitNonZero" /\ buildCalls = 1) =>
        /\ pc \in {"catch", "deleteTag", "rethrow", "done"}
        /\ error = CliBuildError
        /\ Settled =>
            /\ outcome = "rejected"
            /\ Issued({"reset"})
            /\ CliOutput = "Release failed"

\* C26 (as claimed): a perform prints debug messages only if its own config
\* has debug set.
C26_DebugIsPerCall ==
    debugLog => cfg.debug

====
